---- MODULE Spec2Model ----
(***************************************************************************)
(* A model of prompt_registry: PromptRegistry (registry.py) over a storage *)
(* directory of YAML documents, and PromptTemplate (template.py).          *)
(*                                                                         *)
(* Text is modelled as sequences of tokens, so that the file name          *)
(* create_prompt builds (name + "_v" + str(version)) is computed by        *)
(* concatenation and Path.stem is the part before the extension.           *)
(* A Python None / an absent result is the empty sequence <<>>, a present  *)
(* value x is <<x>>.                                                       *)
(***************************************************************************)
EXTENDS Integers, Sequences, FiniteSets, TLC

VARIABLES
    dirExists,   \* prompts_dir.exists()
    storage,     \* the files under prompts_dir, in the order the directory enumerates them
    templates,   \* PromptRegistry._templates : name -> version -> PromptTemplate
    loaded,      \* PromptRegistry._loaded
    ret,         \* the outcome of the call that has just returned (NoCall after a storage edit)
    hist,        \* history of a load or reload: the index before the call, and whether
                 \* the call came right after a load, reload or create that succeeded;
                 \* of a query: whether the registry was loaded when it was called
    tpl,         \* the PromptTemplate a template-level call is made on
    out          \* the outcome of the template-level call that has just returned

vars == <<dirExists, storage, templates, loaded, ret, hist, tpl, out>>

----------------------------------------------------------------------------
(* Bounds of the model *)

\* the most files storage holds
MaxFiles == 2

\* the most keyword arguments a call passes
MaxInputs == 2

----------------------------------------------------------------------------
(* Values *)

None == <<>>

Some(x) == <<x>>

EmptyDict == [k \in {} |-> 0]

\* dict.get(key, default)
DictGet(d, key, default) == IF key \in DOMAIN d THEN d[key] ELSE default

\* the name PromptTemplate.from_dict gives a document without a name
Unnamed == <<"unnamed">>

DigitTok == <<"0", "1", "2", "3", "4", "5", "6", "7", "8", "9">>

\* str(v) for an integer v, as tokens
RECURSIVE Digits(_)
Digits(v) ==
    IF v < 0 THEN <<"-">> \o Digits(-v)
    ELSE IF v < 10 THEN <<DigitTok[v + 1]>>
    ELSE Digits(v \div 10) \o <<DigitTok[(v % 10) + 1]>>

\* template bodies: the source text stands for what the templating engine
\* makes of it: whether it parses, and the variables it references
Body(text, ok, refs) == [text |-> text, syntaxOK |-> ok, refs |-> refs]

EmptyBody == Body("", TRUE, <<>>)

----------------------------------------------------------------------------
(* template.py: VariableSpec and PromptTemplate construction *)

VariableSpec(name, required, default, description) ==
    [name |-> name, required |-> required, default |-> default,
     description |-> description]

\* VariableSpec.from_dict
VarFromDict(name, data) ==
    VariableSpec(name,
                 DictGet(data, "required", TRUE),
                 DictGet(data, "default", None),
                 DictGet(data, "description", ""))

\* a raw variable entry of a document: a mapping, or anything else
RawDict(d) == [isDict |-> TRUE, d |-> d]

RawScalar == [isDict |-> FALSE, d |-> EmptyDict]

PromptTemplate(name, template, version, description, variables) ==
    [name |-> name, template |-> template, version |-> version,
     description |-> description, variables |-> variables]

\* PromptTemplate.from_dict; data["variables"] is the ordered list of
\* (name, raw spec) items of the mapping
FromDict(data) ==
    LET raw == DictGet(data, "variables", <<>>)
        variables ==
            [i \in 1..Len(raw) |->
                IF raw[i].spec.isDict
                THEN VarFromDict(raw[i].name, raw[i].spec.d)
                ELSE VariableSpec(raw[i].name, TRUE, None, "")]
    IN  PromptTemplate(DictGet(data, "name", Unnamed),
                       DictGet(data, "template", EmptyBody),
                       DictGet(data, "version", 1),
                       DictGet(data, "description", ""),
                       variables)

\* a mapping restricted to some of its keys
Restrict(d, keys) == [k \in keys |-> d[k]]

ToDictDefaultAlways(t) ==
    [name |-> t.name, version |-> t.version, description |-> t.description,
     variables |->
        [i \in 1..Len(t.variables) |->
            [name |-> t.variables[i].name,
             spec |-> RawDict(
                IF t.variables[i].default # None
                THEN [required |-> t.variables[i].required,
                      description |-> t.variables[i].description,
                      default |-> t.variables[i].default]
                ELSE [required |-> t.variables[i].required,
                      description |-> t.variables[i].description])]],
     template |-> t.template]

\* PromptTemplate.to_dict: every key is written; a variable's mapping has
\* its default only if the variable is optional and the default is not None
ToDict(t) ==
    [name |-> t.name, version |-> t.version, description |-> t.description,
     variables |->
        [i \in 1..Len(t.variables) |->
            [name |-> t.variables[i].name,
             spec |-> RawDict(
                IF ~t.variables[i].required /\ t.variables[i].default # None
                THEN [required |-> t.variables[i].required,
                      description |-> t.variables[i].description,
                      default |-> t.variables[i].default]
                ELSE [required |-> t.variables[i].required,
                      description |-> t.variables[i].description])]],
     template |-> t.template]

----------------------------------------------------------------------------
(* template.py: validation and rendering *)

\* a dict in insertion order: a sequence of items with distinct keys
Item(key, value) == [key |-> key, value |-> value]

Keys(d) == { d[i].key : i \in 1..Len(d) }

ValueOf(d, key) == d[CHOOSE i \in 1..Len(d) : d[i].key = key].value

VarNamesOf(t) == { t.variables[i].name : i \in 1..Len(t.variables) }

Err(kind, var) == [kind |-> kind, var |-> var]

\* a reference {{ name }} or {{ name.attr }} of a template body
Ref(name, attr) == [name |-> name, attr |-> attr]

\* jinja2.meta.find_undeclared_variables
UndeclaredVariables(body) == { body.refs[i].name : i \in 1..Len(body.refs) }

\* PromptTemplate.validate_inputs
ValidateInputs(t, inputs) ==
    LET missing == SelectSeq(t.variables,
                             LAMBDA v : v.required /\ v.name \notin Keys(inputs))
        unknown == SelectSeq(inputs, LAMBDA e : e.key \notin VarNamesOf(t))
    IN  [i \in 1..Len(missing) |-> Err("missing", missing[i].name)]
        \o [i \in 1..Len(unknown) |-> Err("unknown", unknown[i].key)]

\* a slip: the default is placed for a required variable too
RenderContextDefaultsAll(t, kwargs) ==
    LET placed == SelectSeq(t.variables,
                            LAMBDA v : \/ v.name \in Keys(kwargs)
                                       \/ v.default # None)
        fromVars == [i \in 1..Len(placed) |->
                        Item(placed[i].name,
                             IF placed[i].name \in Keys(kwargs)
                             THEN ValueOf(kwargs, placed[i].name)
                             ELSE placed[i].default[1])]
        extra == SelectSeq(kwargs, LAMBDA e : e.key \notin Keys(fromVars))
    IN  fromVars \o extra

\* a slip: the default of an optional variable wins over the caller's value
RenderContextDefaultFirst(t, kwargs) ==
    LET placed == SelectSeq(t.variables,
                            LAMBDA v : \/ v.name \in Keys(kwargs)
                                       \/ (~v.required /\ v.default # None))
        fromVars == [i \in 1..Len(placed) |->
                        Item(placed[i].name,
                             IF ~placed[i].required /\ placed[i].default # None
                             THEN placed[i].default[1]
                             ELSE ValueOf(kwargs, placed[i].name))]
        extra == SelectSeq(kwargs, LAMBDA e : e.key \notin Keys(fromVars))
    IN  fromVars \o extra

\* the context render() builds from kwargs and the defaults
RenderContext(t, kwargs) ==
    LET placed == SelectSeq(t.variables,
                            LAMBDA v : \/ v.name \in Keys(kwargs)
                                       \/ (~v.required /\ v.default # None))
        fromVars == [i \in 1..Len(placed) |->
                        Item(placed[i].name,
                             IF placed[i].name \in Keys(kwargs)
                             THEN ValueOf(kwargs, placed[i].name)
                             ELSE placed[i].default[1])]
        extra == SelectSeq(kwargs, LAMBDA e : e.key \notin Keys(fromVars))
    IN  fromVars \o extra

\* what the engine prints for one reference; an attribute of an undefined
\* name raises UndefinedError, any other undefined value prints as ""
RefUndefined(context, r) == r.attr /\ r.name \notin Keys(context)

RefText(context, r) ==
    IF r.name \in Keys(context) /\ ~r.attr THEN ValueOf(context, r.name) ELSE ""

Outcome(kind, errors, text, context) ==
    [kind |-> kind, errors |-> errors, text |-> text, context |-> context]

\* what a template-level call leaves for its caller
Out(op, inputs, result) == [op |-> op, inputs |-> inputs, result |-> result]

NoOut == Out("none", <<>>, Outcome("none", <<>>, <<>>, <<>>))

\* PromptTemplate.render
Render(t, kwargs) ==
    LET context == RenderContext(t, kwargs)
        validation_errors == ValidateInputs(t, context)
    IN  IF validation_errors # <<>>
        THEN Outcome("contract_error", validation_errors, <<>>, context)
        ELSE IF ~t.template.syntaxOK
        THEN Outcome("syntax_error", <<>>, <<>>, context)
        ELSE IF \E i \in 1..Len(t.template.refs) :
                    RefUndefined(context, t.template.refs[i])
        THEN Outcome("render_error", <<>>, <<>>, context)
        ELSE Outcome("ok", <<>>,
                     <<t.template.text>>
                        \o [i \in 1..Len(t.template.refs) |->
                                RefText(context, t.template.refs[i])],
                     context)

\* the syntax check of validate()
SyntaxErrors(t) ==
    IF t.template.syntaxOK THEN <<>> ELSE <<Err("syntax", "")>>

\* the variable check of validate(): _get_template_variables parses the body
\* again and validate() catches what it raises; order is the order in which
\* the set of referenced names iterates
VariableErrors(t, order) ==
    IF ~t.template.syntaxOK THEN <<Err("parse_variables", "")>>
    ELSE LET undefined == SelectSeq(order, LAMBDA n : n \notin VarNamesOf(t))
         IN  [i \in 1..Len(undefined) |-> Err("undefined", undefined[i])]

\* the version check of validate()
VersionErrors(t) ==
    IF t.version < 1 THEN <<Err("version", "")>> ELSE <<>>

\* PromptTemplate.validate
Validate(t, order) ==
    SyntaxErrors(t) \o VariableErrors(t, order) \o VersionErrors(t)

\* the orders in which a set of names may be iterated
Orderings(S) ==
    { s \in [1..Cardinality(S) -> S] : \A i, j \in DOMAIN s : s[i] = s[j] => i = j }

----------------------------------------------------------------------------
(* Storage: what yaml.safe_load makes of a file *)

\* a file whose text is not YAML, or whose YAML is not a mapping from_dict accepts
Malformed == [kind |-> "malformed", data |-> EmptyDict]

\* an empty file: yaml.safe_load returns None
EmptyDoc == [kind |-> "empty", data |-> EmptyDict]

MapDoc(data) == [kind |-> "map", data |-> data]

File(stem, ext, doc) == [stem |-> stem, ext |-> ext, doc |-> doc]

SamePath(f, g) == f.stem = g.stem /\ f.ext = g.ext

HasPath(files, f) == \E i \in 1..Len(files) : SamePath(files[i], f)

InsertAt(s, pos, x) == SubSeq(s, 1, pos - 1) \o <<x>> \o SubSeq(s, pos, Len(s))

RemoveAt(s, i) == SubSeq(s, 1, i - 1) \o SubSeq(s, i + 1, Len(s))

----------------------------------------------------------------------------
(* registry.py: PromptRegistry *)

\* self._templates[name][version] = template, creating self._templates[name]
IndexPut(tpls, name, version, t) ==
    LET inner == IF name \in DOMAIN tpls THEN tpls[name] ELSE EmptyDict
    IN  [n \in DOMAIN tpls \cup {name} |->
            IF n = name
            THEN [v \in DOMAIN inner \cup {version} |->
                    IF v = version THEN t ELSE inner[v]]
            ELSE tpls[n]]

\* the name _load_file files a template under
ResolvedName(t, file) == IF t.name = Unnamed THEN file.stem ELSE t.name

\* PromptRegistry._load_file: ok = FALSE when it raises ValueError
LoadFile(tpls, file) ==
    IF file.doc.kind = "malformed" THEN [ok |-> FALSE, templates |-> tpls]
    ELSE IF file.doc.kind = "empty" THEN [ok |-> TRUE, templates |-> tpls]
    ELSE LET parsed == FromDict(file.doc.data)
             name == ResolvedName(parsed, file)
             t == [parsed EXCEPT !.name = name]
         IN  [ok |-> TRUE, templates |-> IndexPut(tpls, name, t.version, t)]

\* prompts_dir.glob("**/*.<ext>"): the files with the extension, in directory order
Glob(files, ext) == SelectSeq(files, LAMBDA f : f.ext = ext)

\* the two loops of load(): _load_file on each file until one raises
RECURSIVE LoadFiles(_, _)
LoadFiles(tpls, files) ==
    IF files = <<>> THEN [ok |-> TRUE, templates |-> tpls]
    ELSE LET r == LoadFile(tpls, Head(files))
         IN  IF r.ok THEN LoadFiles(r.templates, Tail(files)) ELSE r

\* a slip: load() without its first line, so that it adds to the index it finds
LoadResultMerge(exists, files, wasLoaded) ==
    IF ~exists THEN [ok |-> TRUE, templates |-> templates, loaded |-> TRUE]
    ELSE LET r == LoadFiles(templates, Glob(files, "yaml") \o Glob(files, "yml"))
         IN  [ok |-> r.ok, templates |-> r.templates,
              loaded |-> IF r.ok THEN TRUE ELSE wasLoaded]

\* PromptRegistry.load on the files of storage: the index it leaves (it starts
\* from an empty one), whether it returned (ok) or raised, and the _loaded flag
LoadResult(exists, files, wasLoaded) ==
    IF ~exists THEN [ok |-> TRUE, templates |-> EmptyDict, loaded |-> TRUE]
    ELSE LET r == LoadFiles(EmptyDict, Glob(files, "yaml") \o Glob(files, "yml"))
         IN  [ok |-> r.ok, templates |-> r.templates,
              loaded |-> IF r.ok THEN TRUE ELSE wasLoaded]

\* s <= t in the order of strings of digits
RECURSIVE LexLeq(_, _)
LexLeq(s, t) ==
    IF s = <<>> THEN TRUE
    ELSE IF t = <<>> THEN FALSE
    ELSE LET a == CHOOSE i \in 1..10 : DigitTok[i] = Head(s)
             b == CHOOSE i \in 1..10 : DigitTok[i] = Head(t)
         IN  IF a = b THEN LexLeq(Tail(s), Tail(t)) ELSE a < b

\* a slip: the latest version taken as the greatest string (keys compared as text)
MaxVersionLexical(versions) ==
    CHOOSE v \in versions : \A w \in versions : LexLeq(Digits(w), Digits(v))

\* max(versions.keys())
MaxVersion(versions) == CHOOSE v \in versions : \A w \in versions : w <= v

\* a slip: an explicit version that is missing falls back to the latest one
LookupFallback(tpls, name, version) ==
    IF name \notin DOMAIN tpls THEN None
    ELSE LET versions == tpls[name]
         IN  IF version # None /\ version[1] \in DOMAIN versions
             THEN Some(versions[version[1]])
             ELSE Some(versions[MaxVersion(DOMAIN versions)])

\* the lookup of get() once the registry is loaded
Lookup(tpls, name, version) ==
    IF name \notin DOMAIN tpls THEN None
    ELSE LET versions == tpls[name]
         IN  IF version # None
             THEN IF version[1] \in DOMAIN versions
                  THEN Some(versions[version[1]]) ELSE None
             ELSE IF DOMAIN versions # {}
                  THEN Some(versions[MaxVersion(DOMAIN versions)])
                  ELSE None

\* the tokens of names in the order of their first characters, which is the
\* order of the strings they stand for
TokenOrder == DigitTok \o <<"_v", "a", "b", "unnamed">>

\* s <= t for two names, as Python compares strings
RECURSIVE NameLeq(_, _)
NameLeq(s, t) ==
    IF s = <<>> THEN TRUE
    ELSE IF t = <<>> THEN FALSE
    ELSE LET a == CHOOSE i \in 1..Len(TokenOrder) : TokenOrder[i] = Head(s)
             b == CHOOSE i \in 1..Len(TokenOrder) : TokenOrder[i] = Head(t)
         IN  IF a = b THEN NameLeq(Tail(s), Tail(t)) ELSE a < b

\* sorted(names)
RECURSIVE SortedNames(_)
SortedNames(names) ==
    IF names = {} THEN <<>>
    ELSE LET m == CHOOSE x \in names : \A y \in names : NameLeq(x, y)
         IN  <<m>> \o SortedNames(names \ {m})

\* sorted(versions)
RECURSIVE SortedVersions(_)
SortedVersions(versions) ==
    IF versions = {} THEN <<>>
    ELSE LET m == CHOOSE x \in versions : \A y \in versions : x <= y
         IN  <<m>> \o SortedVersions(versions \ {m})

\* list_prompts and __iter__ once the registry is loaded
ListPrompts(tpls) == SortedNames(DOMAIN tpls)

\* list_versions once the registry is loaded
ListVersions(tpls, name) ==
    IF name \notin DOMAIN tpls THEN <<>>
    ELSE SortedVersions(DOMAIN tpls[name])

\* get_all once the registry is loaded: for each name its templates by
\* ascending version
GetAll(tpls) ==
    [n \in DOMAIN tpls |->
        LET vs == SortedVersions(DOMAIN tpls[n])
        IN  [i \in 1..Len(vs) |-> tpls[n][vs[i]]]]

\* __len__ and __contains__ once the registry is loaded
Length(tpls) == Cardinality(DOMAIN tpls)

Contains(tpls, name) == name \in DOMAIN tpls

\* the (name, version) pairs of the index
Entries(tpls) ==
    UNION { { <<n, v>> : v \in DOMAIN tpls[n] } : n \in DOMAIN tpls }

\* f"{name}:v{version}"
CompositeKey(name, version) == name \o <<":v">> \o Digits(version)

\* for each template of the index, an order in which validate() may iterate
\* the names its body references
ValidateOrders(tpls) ==
    LET orders(e) == Orderings(UndeclaredVariables(tpls[e[1]][e[2]].template))
    IN  { f \in [Entries(tpls) -> UNION { orders(e) : e \in Entries(tpls) }] :
            \A e \in Entries(tpls) : f[e] \in orders(e) }

\* a slip: validate_all without its test of template_errors
ValidateAllEvery(tpls, orders) ==
    [k \in { CompositeKey(e[1], e[2]) : e \in Entries(tpls) } |->
        LET e == CHOOSE x \in Entries(tpls) : CompositeKey(x[1], x[2]) = k
        IN  Validate(tpls[e[1]][e[2]], orders[e])]

\* validate_all once the registry is loaded: the error lists that are not
\* empty, under the composite keys (distinct pairs give distinct keys)
ValidateAll(tpls, orders) ==
    LET failing == { e \in Entries(tpls) :
                        Validate(tpls[e[1]][e[2]], orders[e]) # <<>> }
    IN  [k \in { CompositeKey(e[1], e[2]) : e \in failing } |->
            LET e == CHOOSE x \in failing : CompositeKey(x[1], x[2]) = k
            IN  Validate(tpls[e[1]][e[2]], orders[e])]

\* the file name create_prompt writes to
CreateStem(name, version) ==
    IF version = 1 THEN name ELSE name \o <<"_v">> \o Digits(version)

\* the document create_prompt dumps
CreateData(name, body, description, variables, version) ==
    [name |-> name, version |-> version, description |-> description,
     variables |-> variables, template |-> body]

\* open(filepath, "w") and yaml.dump: an existing file keeps its place in the
\* directory and takes the new content, a new file is entered at place pos
WriteFile(files, f, pos) ==
    IF HasPath(files, f)
    THEN [i \in 1..Len(files) |-> IF SamePath(files[i], f) THEN f ELSE files[i]]
    ELSE InsertAt(files, pos, f)

\* what a call leaves for its caller: ok = FALSE when it raised
Ret(op, ok, name, version, body, value) ==
    [op |-> op, ok |-> ok, name |-> name, version |-> version, body |-> body,
     value |-> value]

NoCall == Ret("none", TRUE, None, None, None, None)

\* history kept for the statements about two successive calls
Hist(before, afterLoad) == [before |-> before, afterLoad |-> afterLoad]

NoHist == Hist(EmptyDict, FALSE)

\* history a query leaves: whether the registry was loaded when it was called
QueryHist(wasLoaded) ==
    [before |-> EmptyDict, afterLoad |-> FALSE, wasLoaded |-> wasLoaded]

----------------------------------------------------------------------------
(* The inputs the model draws from *)

NameA == <<"a">>

NameB == <<"b">>

NameAV2 == <<"a", "_v", "2">>

B1 == Body("B1", TRUE, <<>>)

B2 == Body("B2", TRUE, <<>>)

\* documents an editor of the storage directory writes
ExtData ==
    { [template |-> B2], [name |-> NameA, version |-> 10, template |-> B2] }

ExtDocs == {Malformed, EmptyDoc} \cup { MapDoc(d) : d \in ExtData }

\* the paths an editor writes to
ExtPaths == { [stem |-> NameA, ext |-> "yml"], [stem |-> NameB, ext |-> "yaml"] }

ExtFiles == { File(p.stem, p.ext, doc) : p \in ExtPaths, doc \in ExtDocs }

CreateNames == {NameA, NameAV2, Unnamed}

CreateVersions == {1, 2}

CreateBodies == {B1}

QueryNames == {NameA}

QueryVersions == {None, Some(10)}

----------------------------------------------------------------------------
(* Registry operations *)

TemplateIdle == UNCHANGED <<tpl, out>>

\* the index as the call found it; the call before it was a load that succeeded
Record ==
    hist' = Hist(templates, ret.op \in {"load", "reload", "create"} /\ ret.ok)

\* PromptRegistry.load
Load ==
    LET r == LoadResult(dirExists, storage, loaded)
    IN  /\ templates' = r.templates
        /\ loaded' = r.loaded
        /\ ret' = Ret("load", r.ok, None, None, None, None)
        /\ Record
        /\ UNCHANGED <<dirExists, storage>>
        /\ TemplateIdle

\* PromptRegistry.reload
Reload ==
    LET r == LoadResult(dirExists, storage, FALSE)
    IN  /\ templates' = r.templates
        /\ loaded' = r.loaded
        /\ ret' = Ret("reload", r.ok, None, None, None, None)
        /\ Record
        /\ UNCHANGED <<dirExists, storage>>
        /\ TemplateIdle

\* a slip: _ensure_loaded that does not load
EnsureLoadedSkip == [ok |-> TRUE, templates |-> templates, loaded |-> loaded]

\* PromptRegistry._ensure_loaded
EnsureLoaded ==
    IF loaded THEN [ok |-> TRUE, templates |-> templates, loaded |-> TRUE]
    ELSE LoadResult(dirExists, storage, loaded)

\* PromptRegistry.get
Get(name, version) ==
    LET e == EnsureLoaded
    IN  /\ templates' = e.templates
        /\ loaded' = e.loaded
        /\ ret' = Ret("get", e.ok, name, version, None,
                      IF e.ok THEN Lookup(e.templates, name, version) ELSE None)
        /\ hist' = QueryHist(loaded)
        /\ UNCHANGED <<dirExists, storage>>
        /\ TemplateIdle

\* what every query but get does around its result: _ensure_loaded, then
\* the result computed on the index; a query returns nothing when the load
\* raises
Query(op, name, e, value) ==
    /\ templates' = e.templates
    /\ loaded' = e.loaded
    /\ ret' = Ret(op, e.ok, name, None, None, IF e.ok THEN value ELSE None)
    /\ hist' = QueryHist(loaded)
    /\ UNCHANGED <<dirExists, storage>>
    /\ TemplateIdle

\* PromptRegistry.list_prompts
CallListPrompts ==
    LET e == EnsureLoaded
    IN  Query("list_prompts", None, e, ListPrompts(e.templates))

\* PromptRegistry.list_versions
CallListVersions(name) ==
    LET e == EnsureLoaded
    IN  Query("list_versions", name, e, ListVersions(e.templates, name))

\* PromptRegistry.get_all
CallGetAll ==
    LET e == EnsureLoaded
    IN  Query("get_all", None, e, GetAll(e.templates))

\* PromptRegistry.validate_all
CallValidateAll ==
    LET e == EnsureLoaded
    IN  \E orders \in ValidateOrders(e.templates) :
            Query("validate_all", None, e, ValidateAll(e.templates, orders))

\* PromptRegistry.__len__
CallLen ==
    LET e == EnsureLoaded
    IN  Query("len", None, e, Length(e.templates))

\* PromptRegistry.__contains__
CallContains(name) ==
    LET e == EnsureLoaded
    IN  Query("contains", name, e, Contains(e.templates, name))

\* PromptRegistry.__iter__
CallIter ==
    LET e == EnsureLoaded
    IN  Query("iter", None, e, ListPrompts(e.templates))

\* a slip: create_prompt without its reload()
CreatePromptNoReload(name, body, version) ==
    LET f == File(CreateStem(name, version), "yaml",
                  MapDoc(CreateData(name, body, "", <<>>, version)))
    IN  /\ HasPath(storage, f) \/ Len(storage) < MaxFiles
        /\ \E pos \in 1..(Len(storage) + 1) : storage' = WriteFile(storage, f, pos)
        /\ dirExists' = TRUE
        /\ ret' = Ret("create", TRUE, name, Some(version), Some(body),
                      Some([stem |-> f.stem, ext |-> f.ext]))
        /\ hist' = NoHist
        /\ UNCHANGED <<templates, loaded>>
        /\ TemplateIdle

\* a slip: create_prompt enters the new template in the index itself instead
\* of reloading
CreatePromptInsert(name, body, version) ==
    LET f == File(CreateStem(name, version), "yaml",
                  MapDoc(CreateData(name, body, "", <<>>, version)))
    IN  /\ HasPath(storage, f) \/ Len(storage) < MaxFiles
        /\ \E pos \in 1..(Len(storage) + 1) : storage' = WriteFile(storage, f, pos)
        /\ dirExists' = TRUE
        /\ templates' = IndexPut(templates, name, version,
                                 PromptTemplate(name, body, version, "", <<>>))
        /\ loaded' = TRUE
        /\ ret' = Ret("create", TRUE, name, Some(version), Some(body),
                      Some([stem |-> f.stem, ext |-> f.ext]))
        /\ hist' = NoHist
        /\ TemplateIdle

\* PromptRegistry.create_prompt
CreatePrompt(name, body, version) ==
    LET f == File(CreateStem(name, version), "yaml",
                  MapDoc(CreateData(name, body, "", <<>>, version)))
    IN  /\ HasPath(storage, f) \/ Len(storage) < MaxFiles
        /\ \E pos \in 1..(Len(storage) + 1) :
             /\ storage' = WriteFile(storage, f, pos)
             /\ dirExists' = TRUE
             /\ LET r == LoadResult(TRUE, storage', FALSE)
                IN  /\ templates' = r.templates
                    /\ loaded' = r.loaded
                    /\ ret' = Ret("create", r.ok, name, Some(version), Some(body),
                                  Some([stem |-> f.stem, ext |-> f.ext]))
        /\ hist' = NoHist
        /\ TemplateIdle

----------------------------------------------------------------------------
(* Edits of the storage directory made outside the registry *)

\* a new file appears, at any place of the directory's enumeration order
ExtWrite ==
    /\ Len(storage) < MaxFiles
    /\ \E f \in ExtFiles, pos \in 1..(Len(storage) + 1) :
         /\ ~HasPath(storage, f)
         /\ storage' = InsertAt(storage, pos, f)
    /\ dirExists' = TRUE
    /\ ret' = NoCall
    /\ hist' = NoHist
    /\ UNCHANGED <<templates, loaded>>
    /\ TemplateIdle

\* a file is deleted
ExtDelete ==
    /\ \E i \in 1..Len(storage) : storage' = RemoveAt(storage, i)
    /\ ret' = NoCall
    /\ hist' = NoHist
    /\ UNCHANGED <<dirExists, templates, loaded>>
    /\ TemplateIdle

----------------------------------------------------------------------------
(* The registry and its storage *)

NoTemplate == PromptTemplate(Unnamed, EmptyBody, 1, "", <<>>)

Init ==
    /\ dirExists \in BOOLEAN
    /\ storage = <<>>
    /\ templates = EmptyDict
    /\ loaded = FALSE
    /\ ret = NoCall
    /\ hist = NoHist
    /\ tpl = NoTemplate
    /\ out = NoOut

DoGet == \E name \in QueryNames, version \in QueryVersions : Get(name, version)

DoCreate ==
    \E name \in CreateNames, body \in {B1}, version \in CreateVersions :
        CreatePrompt(name, body, version)

Next == Load \/ Reload \/ DoGet \/ DoCreate \/ ExtWrite \/ ExtDelete

Spec == Init /\ [][Next]_vars

----------------------------------------------------------------------------
(* The queries, on a registry constructed over a directory that has files *)

\* a body that references x and z
BXZ == Body("BXZ", TRUE, <<Ref("x", FALSE), Ref("z", FALSE)>>)

\* the documents of the directory: a valid template named by its file, one
\* that validate() rejects (x and z are not declared, the version is 0), a
\* valid one that names itself, and a file that does not load
QueryDocs ==
    { MapDoc([template |-> B2]),
      MapDoc([version |-> 0, template |-> BXZ]),
      MapDoc([name |-> NameA, version |-> 10, template |-> B2]),
      Malformed }

QueryPaths ==
    { [stem |-> NameA, ext |-> "yaml"], [stem |-> NameB, ext |-> "yaml"],
      [stem |-> NameA, ext |-> "yml"] }

QueryFiles == { File(p.stem, p.ext, d) : p \in QueryPaths, d \in QueryDocs }

\* the directories: files with distinct paths, in enumeration order
QueryStorages ==
    UNION { { s \in [1..k -> QueryFiles] :
                \A i, j \in 1..k : SamePath(s[i], s[j]) => i = j } :
            k \in 0..Cardinality(QueryPaths) }

InitQuery ==
    /\ storage \in QueryStorages
    /\ dirExists \in BOOLEAN
    /\ storage # <<>> => dirExists
    /\ templates = EmptyDict
    /\ loaded = FALSE
    /\ ret = NoCall
    /\ hist = NoHist
    /\ tpl = NoTemplate
    /\ out = NoOut

DoListVersions == \E name \in QueryNames : CallListVersions(name)

DoContains == \E name \in QueryNames : CallContains(name)

NextQuery ==
    \/ Load
    \/ DoGet
    \/ CallListPrompts
    \/ DoListVersions
    \/ CallGetAll
    \/ CallValidateAll
    \/ CallLen
    \/ DoContains
    \/ CallIter
    \/ ExtDelete

SpecQuery == InitQuery /\ [][NextQuery]_vars

----------------------------------------------------------------------------
(* PromptTemplate on its own: the templates and inputs the model draws from *)

VarNames == {"x", "y"}

InputKeys == VarNames \cup {"z"}

VarSpecs == { VariableSpec(n, r, d, "") :
                n \in VarNames, r \in BOOLEAN, d \in {None, Some("d")} }

VariableLists ==
    UNION { { s \in [1..k -> VarSpecs] :
                \A i, j \in 1..k : s[i].name = s[j].name => i = j } :
            k \in 0..Cardinality(VarNames) }

InputLists ==
    UNION { { s \in [1..k -> { Item(key, "v") : key \in InputKeys }] :
                \A i, j \in 1..k : s[i].key = s[j].key => i = j } :
            k \in 0..MaxInputs }

TemplateBodies ==
    { Body("T1", TRUE, <<Ref("x", FALSE)>>),
      Body("T2", FALSE, <<>>),
      Body("T3", TRUE, <<Ref("x", FALSE), Ref("z", FALSE)>>),
      Body("T4", TRUE, <<Ref("y", TRUE)>>) }

TemplateVersions == {0, 1, 2}

Templates ==
    { PromptTemplate(NameA, b, v, "", vs) :
        b \in TemplateBodies, v \in TemplateVersions, vs \in VariableLists }

RegistryIdle == UNCHANGED <<dirExists, storage, templates, loaded, ret, hist>>

\* a call of tpl.render(**kwargs)
CallRender ==
    /\ \E kwargs \in InputLists : out' = Out("render", kwargs, Render(tpl, kwargs))
    /\ UNCHANGED tpl
    /\ RegistryIdle

\* a call of tpl.validate_inputs(inputs)
CallValidateInputs ==
    /\ \E inputs \in InputLists :
         out' = Out("validate_inputs", inputs,
                    Outcome("errors", ValidateInputs(tpl, inputs), <<>>, <<>>))
    /\ UNCHANGED tpl
    /\ RegistryIdle

\* a call of tpl.validate()
CallValidate ==
    /\ \E order \in Orderings(UndeclaredVariables(tpl.template)) :
         out' = Out("validate", <<>>,
                    Outcome("errors", Validate(tpl, order), <<>>, <<>>))
    /\ UNCHANGED tpl
    /\ RegistryIdle

InitTemplate ==
    /\ dirExists = FALSE
    /\ storage = <<>>
    /\ templates = EmptyDict
    /\ loaded = FALSE
    /\ ret = NoCall
    /\ hist = NoHist
    /\ tpl \in Templates
    /\ out = NoOut

NextTemplate == CallRender \/ CallValidateInputs \/ CallValidate

SpecTemplate == InitTemplate /\ [][NextTemplate]_vars

----------------------------------------------------------------------------
(* Statements about the registry, checked under Spec *)

HasEntry(tpls, name, version) ==
    name \in DOMAIN tpls /\ version \in DOMAIN tpls[name]

IsLoadCall == ret.op \in {"load", "reload"}

\* the files in the order load() reads them
ReadOrder(files) == Glob(files, "yaml") \o Glob(files, "yml")

\* file f holds a document that load files under (name, version)
ResolvesTo(f, name, version) ==
    /\ f.doc.kind = "map"
    /\ ResolvedName(FromDict(f.doc.data), f) = name
    /\ FromDict(f.doc.data).version = version

\* C1: load() is all-or-nothing: when it fails, the index the queries show
\* afterwards is the index before the call or empty, never the documents read
\* before the bad one. (With _loaded set the queries answer from the index as
\* it is; without it they load again, and raise as this load did.)
C1_LoadAllOrNothing ==
    (IsLoadCall /\ ~ret.ok /\ loaded) =>
        (templates = hist.before \/ templates = EmptyDict)

\* C2: create never overwrites: when the file path it targets exists, create
\* fails and leaves the stored files and the index as they were.
C2_CreateNeverOverwrites ==
    [][ (ret'.op = "create" /\ HasPath(storage, ret'.value[1]))
            => (~ret'.ok /\ storage' = storage /\ templates' = templates) ]_vars

\* C3: get(name) without a version returns the entry of the numerically greatest
\* version the index holds for the name, and absent exactly when the name is
\* not in the index.
C3_GetLatestIsNumericMax ==
    (ret.op = "get" /\ ret.ok /\ ret.version = None) =>
        IF ret.name \in DOMAIN templates
        THEN /\ ret.value # None
             /\ ret.value[1].version \in DOMAIN templates[ret.name]
             /\ ret.value[1] = templates[ret.name][ret.value[1].version]
             /\ \A w \in DOMAIN templates[ret.name] : w <= ret.value[1].version
        ELSE ret.value = None

C3_Witness ==
    /\ ret.op = "get" /\ ret.ok /\ ret.version = None
    /\ ret.value # None
    /\ ret.value[1].version = 10
    /\ HasEntry(templates, ret.name, 2)

\* C4: get(name, v) returns the entry at (name, v), whose name is name and
\* whose version is v, when the index holds one, and absent otherwise.
C4_GetExactVersion ==
    (ret.op = "get" /\ ret.ok /\ ret.version # None) =>
        IF HasEntry(templates, ret.name, ret.version[1])
        THEN /\ ret.value = Some(templates[ret.name][ret.version[1]])
             /\ ret.value[1].name = ret.name
             /\ ret.value[1].version = ret.version[1]
        ELSE ret.value = None

C4_Witness ==
    /\ ret.op = "get" /\ ret.ok /\ ret.version = Some(10)
    /\ ret.value # None
    /\ HasEntry(templates, ret.name, 2)

\* C5: after a load or reload that succeeds, every (name, version) of the index
\* comes from a document storage holds at the time of the call, so the entry
\* of a file deleted since the load before is gone.
C5_ReloadReplacesIndex ==
    (IsLoadCall /\ ret.ok) =>
        \A name \in DOMAIN templates : \A v \in DOMAIN templates[name] :
            \E i \in 1..Len(storage) :
                /\ ResolvesTo(storage[i], name, v)
                /\ templates[name][v] =
                       [FromDict(storage[i].doc.data) EXCEPT !.name = name]

C5_Witness ==
    /\ IsLoadCall /\ ret.ok
    /\ templates # EmptyDict
    /\ \E name \in DOMAIN hist.before : \E v \in DOMAIN hist.before[name] :
            ~HasEntry(templates, name, v)

\* C6 as stated: after a create that succeeds, get(name, version) returns a
\* template with the body passed to create, whatever else storage holds.
C6_CreateVisible ==
    (ret.op = "create" /\ ret.ok) =>
        /\ Lookup(templates, ret.name, ret.version) # None
        /\ Lookup(templates, ret.name, ret.version)[1].template = ret.body[1]

\* the place of the file create wrote in the order load() reads the files
WrittenAt == CHOOSE i \in 1..Len(ReadOrder(storage)) :
                 SamePath(ReadOrder(storage)[i], ret.value[1])

\* the name the registry files the written document under
WrittenName == IF ret.name = Unnamed THEN ret.value[1].stem ELSE ret.name

\* C6 as amended: after a create that succeeds the new entry is visible without
\* a load or reload, under the name the registry files it under (the file's
\* base name when name is "unnamed"), with the body passed to create, provided
\* no document load() reads after the new file has the same name and version.
C6_CreateVisibleUnlessShadowed ==
    (/\ ret.op = "create" /\ ret.ok
     /\ \A j \in 1..Len(ReadOrder(storage)) :
            j > WrittenAt =>
                ~ResolvesTo(ReadOrder(storage)[j], WrittenName, ret.version[1]))
    => /\ Lookup(templates, WrittenName, ret.version) # None
       /\ Lookup(templates, WrittenName, ret.version)[1].template = ret.body[1]

C6_Witness ==
    /\ ret.op = "create" /\ ret.ok
    /\ Len(storage) > 1
    /\ Lookup(templates, ret.name, ret.version) # None
    /\ Lookup(templates, ret.name, ret.version)[1].template = ret.body[1]

----------------------------------------------------------------------------
(* Statements about a template, checked under SpecTemplate *)

RequiredNames(t) ==
    { t.variables[i].name : i \in { j \in 1..Len(t.variables) : t.variables[j].required } }

\* the violations of the variable contract by inputs: one for each required
\* variable missing from them, one for each key that is no declared variable
Violations(t, inputs) ==
    { Err("missing", n) : n \in RequiredNames(t) \ Keys(inputs) }
    \cup { Err("unknown", k) : k \in Keys(inputs) \ VarNamesOf(t) }

Range(s) == { s[i] : i \in 1..Len(s) }

\* C7: render(inputs) fails with a variable-contract error exactly when
\* validate_inputs(inputs), on the caller's inputs, reports an error, and the
\* failure lists every violation validate_inputs(inputs) reports, once each.
C7_RenderFailsAsValidateInputs ==
    (out.op = "render") =>
        /\ (out.result.kind = "contract_error")
               <=> (ValidateInputs(tpl, out.inputs) # <<>>)
        /\ (out.result.kind = "contract_error") =>
               /\ out.result.errors = ValidateInputs(tpl, out.inputs)
               /\ Range(out.result.errors) = Violations(tpl, out.inputs)
               /\ Len(out.result.errors) = Cardinality(Violations(tpl, out.inputs))

C7_Witness ==
    /\ out.op = "render"
    /\ out.result.kind = "contract_error"
    /\ \E n \in VarNames : Err("missing", n) \in Range(out.result.errors)
    /\ Err("unknown", "z") \in Range(out.result.errors)
    /\ \E i \in 1..Len(tpl.variables) :
            /\ ~tpl.variables[i].required
            /\ tpl.variables[i].default # None
            /\ tpl.variables[i].name \notin Keys(out.inputs)

\* C8: the context of render holds, for each declared variable, the caller's
\* value when inputs has the key, else the default when the variable is
\* optional and the default is not null, else nothing; omitting a required
\* variable fails even if it has a default, and an omitted optional variable
\* with a default renders as the default.
C8_ContextAndDefaults ==
    (out.op = "render") =>
        \A i \in 1..Len(tpl.variables) :
            LET v == tpl.variables[i]
                ctx == out.result.context
            IN  /\ IF v.name \in Keys(out.inputs)
                   THEN v.name \in Keys(ctx)
                        /\ ValueOf(ctx, v.name) = ValueOf(out.inputs, v.name)
                   ELSE IF ~v.required /\ v.default # None
                   THEN v.name \in Keys(ctx) /\ ValueOf(ctx, v.name) = v.default[1]
                   ELSE v.name \notin Keys(ctx)
                /\ (v.required /\ v.name \notin Keys(out.inputs))
                       => out.result.kind = "contract_error"
                /\ (/\ out.result.kind = "ok"
                    /\ ~v.required /\ v.default # None
                    /\ v.name \notin Keys(out.inputs))
                       => \A k \in 1..Len(tpl.template.refs) :
                              (tpl.template.refs[k] = Ref(v.name, FALSE))
                                  => out.result.text[k + 1] = v.default[1]

C8_Witness ==
    /\ out.op = "render"
    /\ out.result.kind = "ok"
    /\ out.inputs = <<>>
    /\ \E i \in 1..Len(tpl.variables) :
            /\ ~tpl.variables[i].required
            /\ tpl.variables[i].default = Some("d")
            /\ tpl.template.refs = <<Ref(tpl.variables[i].name, FALSE)>>
            /\ out.result.text[2] = "d"

\* C9: validate() on a template whose body does not parse and whose version is
\* an integer of at least 1 returns exactly one message.
C9_SyntaxErrorOneMessage ==
    (out.op = "validate" /\ ~tpl.template.syntaxOK /\ tpl.version >= 1) =>
        Len(out.result.errors) = 1

----------------------------------------------------------------------------
(* Statements about the queries, checked under SpecQuery *)

QueryOps ==
    {"get", "list_prompts", "list_versions", "get_all", "validate_all",
     "len", "contains", "iter"}

\* the results the query of ret may give on the index tpls
QueryResults(tpls) ==
    CASE ret.op = "get" -> {Lookup(tpls, ret.name, ret.version)}
      [] ret.op = "list_prompts" -> {ListPrompts(tpls)}
      [] ret.op = "list_versions" -> {ListVersions(tpls, ret.name)}
      [] ret.op = "get_all" -> {GetAll(tpls)}
      [] ret.op = "validate_all" ->
            { ValidateAll(tpls, orders) : orders \in ValidateOrders(tpls) }
      [] ret.op = "len" -> {Length(tpls)}
      [] ret.op = "contains" -> {Contains(tpls, ret.name)}
      [] ret.op = "iter" -> {ListPrompts(tpls)}
      [] OTHER -> {}

\* C11: a query called on a registry that is not loaded loads first: it
\* raises exactly when load() on the same storage raises, and otherwise
\* returns what the query returns on the index load() builds from the
\* storage, and leaves the registry loaded with that index.
C11_QueryLoadsFirst ==
    (ret.op \in QueryOps /\ ~hist.wasLoaded) =>
        LET r == LoadResult(dirExists, storage, FALSE)
        IN  /\ ret.ok = r.ok
            /\ templates = r.templates
            /\ loaded = r.ok
            /\ r.ok => ret.value \in QueryResults(r.templates)

\* a first query, on a directory with two files, that returned the names
\* of both templates
C11_Witness ==
    /\ ret.op = "list_prompts"
    /\ ~hist.wasLoaded
    /\ ret.ok
    /\ ret.value = <<NameA, NameB>>
    /\ Len(storage) = 2

\* the error lists validate() may return for the template at (name, version)
ValidateResults(name, version) ==
    { Validate(templates[name][version], order) :
        order \in Orderings(UndeclaredVariables(
                                templates[name][version].template)) }

\* C12: validate_all returns a mapping whose keys are exactly the composite
\* keys name:v<version> of the indexed templates whose validate() result is
\* not empty, each mapped to an error list validate() gives for that
\* template; a template without errors has no key.
C12_ValidateAllKeys ==
    (ret.op = "validate_all" /\ ret.ok) =>
        /\ \A e \in Entries(templates) :
              IF <<>> \in ValidateResults(e[1], e[2])
              THEN CompositeKey(e[1], e[2]) \notin DOMAIN ret.value
              ELSE /\ CompositeKey(e[1], e[2]) \in DOMAIN ret.value
                   /\ ret.value[CompositeKey(e[1], e[2])]
                          \in ValidateResults(e[1], e[2])
        /\ \A k \in DOMAIN ret.value :
              \E e \in Entries(templates) : k = CompositeKey(e[1], e[2])

\* three templates are indexed, one of them with version 0, and the result
\* has exactly one entry, under b:v0, with the three errors of that
\* template, the undeclared names in one of their two orders
C12_Witness ==
    /\ ret.op = "validate_all"
    /\ ret.ok
    /\ Cardinality(Entries(templates)) = 3
    /\ <<NameB, 0>> \in Entries(templates)
    /\ DOMAIN ret.value = {<<"b", ":v", "0">>}
    /\ ret.value[<<"b", ":v", "0">>]
           = <<Err("undefined", "z"), Err("undefined", "x"),
               Err("version", "")>>

----------------------------------------------------------------------------
(* Documents and the round trip from_dict, to_dict, from_dict *)

\* the mappings a document gives for one variable: any of the three keys
\* may be missing, and default may be written as null
RawVarDicts ==
    { Restrict(d, keys) :
        d \in [required : BOOLEAN, default : {None, Some("d")},
               description : {"vd"}],
        keys \in SUBSET {"required", "default", "description"} }

RawSpecs == {RawScalar} \cup { RawDict(d) : d \in RawVarDicts }

RawVariableLists ==
    UNION { { s \in [1..k -> [name : VarNames, spec : RawSpecs]] :
                \A i, j \in 1..k : s[i].name = s[j].name => i = j } :
            k \in 0..Cardinality(VarNames) }

DocKeys == {"name", "version", "description", "variables", "template"}

Documents ==
    { Restrict(d, keys) :
        d \in [name : {NameA}, version : {0, 2}, description : {"about"},
               variables : RawVariableLists,
               template : {Body("T1", TRUE, <<Ref("x", FALSE)>>)}],
        keys \in SUBSET DocKeys }

\* PromptTemplate.from_dict(D)
CallFromDict ==
    /\ out.op = "document"
    /\ tpl' = FromDict(out.inputs)
    /\ out' = Out("from_dict", out.inputs, FromDict(out.inputs))
    /\ RegistryIdle

\* tpl.to_dict()
CallToDict ==
    /\ out.op = "from_dict"
    /\ out' = Out("to_dict", out.inputs, ToDict(tpl))
    /\ UNCHANGED tpl
    /\ RegistryIdle

\* PromptTemplate.from_dict of the mapping to_dict returned; tpl stays the
\* template of the first from_dict
CallFromDictAgain ==
    /\ out.op = "to_dict"
    /\ out' = Out("round_trip", out.inputs, FromDict(out.result))
    /\ UNCHANGED tpl
    /\ RegistryIdle

InitRoundTrip ==
    /\ dirExists = FALSE
    /\ storage = <<>>
    /\ templates = EmptyDict
    /\ loaded = FALSE
    /\ ret = NoCall
    /\ hist = NoHist
    /\ tpl = NoTemplate
    /\ out \in { Out("document", d, NoOut.result) : d \in Documents }

NextRoundTrip == CallFromDict \/ CallToDict \/ CallFromDictAgain

SpecRoundTrip == InitRoundTrip /\ [][NextRoundTrip]_vars

\* C13: from_dict(to_dict(from_dict(D))) has the name, version, description
\* and template body of from_dict(D), and the same variables in the same
\* order with the same required flag and description; to_dict writes a
\* variable's default exactly when the variable is optional and the default
\* is not None, so a required variable has no default after the round trip.
C13_RoundTrip ==
    /\ (out.op = "to_dict") =>
          /\ Len(out.result.variables) = Len(tpl.variables)
          /\ \A i \in 1..Len(tpl.variables) :
                ("default" \in DOMAIN out.result.variables[i].spec.d)
                <=> (/\ ~tpl.variables[i].required
                     /\ tpl.variables[i].default # None)
    /\ (out.op = "round_trip") =>
          /\ out.result.name = tpl.name
          /\ out.result.version = tpl.version
          /\ out.result.description = tpl.description
          /\ out.result.template = tpl.template
          /\ Len(out.result.variables) = Len(tpl.variables)
          /\ \A i \in 1..Len(tpl.variables) :
                /\ out.result.variables[i].name = tpl.variables[i].name
                /\ out.result.variables[i].required = tpl.variables[i].required
                /\ out.result.variables[i].description
                       = tpl.variables[i].description
                /\ tpl.variables[i].required
                       => out.result.variables[i].default = None

\* a round trip of a document that gives a required variable a default and
\* a description, and gives the template a version and no name: the second
\* template has the variable without the default
C13_Witness ==
    /\ out.op = "round_trip"
    /\ "name" \notin DOMAIN out.inputs
    /\ tpl.version = 2
    /\ \E i \in 1..Len(tpl.variables) :
          /\ tpl.variables[i].required
          /\ tpl.variables[i].default = Some("d")
          /\ tpl.variables[i].description = "vd"
          /\ out.result.variables[i].default = None
          /\ out.result.variables[i].description = "vd"

----------------------------------------------------------------------------
(* The file names of create_prompt, checked under Spec *)

\* C14: the file name convention never makes two different (name, version)
\* pairs collide, so a create never replaces the stored document of a
\* template with a different name or version: every such document is in
\* storage after the create as it was before.
C14_CreateNeverReplacesOther ==
    [][ (ret'.op = "create") =>
            \A i \in 1..Len(storage) :
                (/\ storage[i].doc.kind = "map"
                 /\ ~ResolvesTo(storage[i], ret'.name, ret'.version[1]))
                => \E j \in 1..Len(storage') : storage'[j] = storage[i] ]_vars

====
